---------------------------- MODULE Spec2Model ----------------------------
(***************************************************************************)
(* Model of the image transformation engine of image-scale-hub             *)
(* (utils/image_processor.py, utils/security.py) and of the upload and     *)
(* processing routes that drive it (routes/images.py).                     *)
(***************************************************************************)
EXTENDS Integers, Sequences, FiniteSets, TLC

(***************************************************************************)
(* Binary64 arithmetic.  Python evaluates  a / b , c * x  and  c / x  on   *)
(* IEEE-754 doubles, rounding to nearest, ties to even, and int(x)         *)
(* truncates.  A positive double is [m, e] with value m * 2^e and          *)
(* 2^52 <= m < 2^53; m is held in three limbs of 26 bits, least            *)
(* significant first, because TLC evaluates integers in 32 bits.           *)
(***************************************************************************)
Limb == 2^26

BZero == <<0, 0, 0>>

BOfInt(n) == <<n % Limb, n \div Limb, 0>>

BCarry(a, b, c) ==
    LET b1 == b + (a \div Limb)
    IN  <<a % Limb, b1 % Limb, c + (b1 \div Limb)>>

BAdd(X, Y) == BCarry(X[1] + Y[1], X[2] + Y[2], X[3] + Y[3])

BGe(X, Y) ==
    \/ X[3] > Y[3]
    \/ X[3] = Y[3] /\ X[2] > Y[2]
    \/ X[3] = Y[3] /\ X[2] = Y[2] /\ X[1] >= Y[1]

BSub(X, Y) ==
    LET d0 == X[1] - Y[1]
        b0 == IF d0 < 0 THEN 1 ELSE 0
        d1 == X[2] - Y[2] - b0
        b1 == IF d1 < 0 THEN 1 ELSE 0
    IN  <<d0 + b0 * Limb, d1 + b1 * Limb, X[3] - Y[3] - b1>>

BHalf(X) ==
    <<(X[1] \div 2) + (X[2] % 2) * (Limb \div 2),
      (X[2] \div 2) + (X[3] % 2) * (Limb \div 2),
      X[3] \div 2>>

BOdd(X) == X[1] % 2 = 1

BIsZero(X) == X = BZero

\* Number of bits of 0 <= n < 2^27.
BitLenInt(n) == Cardinality({k \in 0..26 : 2^k <= n})

BBitLen(X) ==
    IF X[3] > 0 THEN 52 + BitLenInt(X[3])
    ELSE IF X[2] > 0 THEN 26 + BitLenInt(X[2])
    ELSE BitLenInt(X[1])

\* X shifted right by whole limbs, then by r < 26 bits.
BShrLimbs(X, q) ==
    IF q = 0 THEN X
    ELSE IF q = 1 THEN <<X[2], X[3], 0>>
    ELSE IF q = 2 THEN <<X[3], 0, 0>>
    ELSE BZero

BShrBits(X, r) ==
    LET p == 2^r
        u == 2^(26 - r)
    IN  <<(X[1] \div p) + (X[2] % p) * u,
          (X[2] \div p) + (X[3] % p) * u,
          X[3] \div p>>

BShr(X, s) == BShrBits(BShrLimbs(X, s \div 26), s % 26)

\* X shifted left (the result stays below 2^78).
BShlLimbs(X, q) ==
    IF q = 0 THEN X
    ELSE IF q = 1 THEN <<0, X[1], X[2]>>
    ELSE <<0, 0, X[1]>>

BShlBits(X, r) ==
    LET u == 2^(26 - r)
        p == 2^r
    IN  <<(X[1] % u) * p,
          (X[2] % u) * p + (X[1] \div u),
          (X[3] % u) * p + (X[2] \div u)>>

BShl(X, s) == BShlBits(BShlLimbs(X, s \div 26), s % 26)

\* X mod 2^s.
BLow(X, s) == BSub(X, BShl(BShr(X, s), s))

\* X * c for 0 <= c < 2^13, by half limbs of 13 bits.
BMulInt(X, c) ==
    LET H  == 2^13
        p1 == c * (X[1] % H)
        q1 == c * (X[1] \div H)
        p2 == c * (X[2] % H)
        q2 == c * (X[2] \div H)
        p3 == c * (X[3] % H)
        q3 == c * (X[3] \div H)
    IN  BCarry(p1 + (q1 % H) * H,
               p2 + (q2 % H) * H + (q1 \div H),
               p3 + (q3 % H) * H + (q2 \div H))

\* A mantissa of 53 or 54 bits brought back to 53 bits (54 bits arise only as
\* 2^53, from a carry of the rounding increment).
Renormalize(m, e) ==
    IF BBitLen(m) > 53 THEN [m |-> BHalf(m), e |-> e + 1] ELSE [m |-> m, e |-> e]

\* Round to nearest, ties to even: q is the kept part, low the dropped bits,
\* half the weight of the first dropped bit.
RoundUp(q, low, half, sticky) ==
    IF low = half THEN sticky \/ BOdd(q) ELSE BGe(low, half)

RoundAt(N, sticky, e, s) ==
    IF s <= 0 THEN [m |-> BShl(N, 0 - s), e |-> e + s]
    ELSE IF RoundUp(BShr(N, s), BLow(N, s), BShl(BOfInt(1), s - 1), sticky)
    THEN Renormalize(BAdd(BShr(N, s), BOfInt(1)), e + s)
    ELSE [m |-> BShr(N, s), e |-> e + s]

\* The double nearest to (N + f) * 2^e, ties to even, where 0 <= f < 1 and
\* sticky says f > 0 (N has at least 54 bits whenever sticky is set).
RoundNearestEven(N, sticky, e) == RoundAt(N, sticky, e, BBitLen(N) - 53)

\* float(n) for an int 0 < n < 2^31: exact.
FromInt(n) == [m |-> BShl(BOfInt(n), 53 - BBitLen(BOfInt(n))),
               e |-> BBitLen(BOfInt(n)) - 53]

\* One step of the long division of mantissas in radix 2^10: the next digit
\* floor(r * 2^10 / m), estimated from the leading 21 bits (never above the
\* digit, at most one below it) and then corrected.
DivEstimate(d) == (BShr(d.r, 32)[1] * 1024) \div (BShr(d.m, 32)[1] + 1)

DivCorrect(d, est, R1) ==
    IF BGe(R1, d.m)
    THEN [n |-> BAdd(BShl(d.n, 10), BOfInt(est + 1)), r |-> BSub(R1, d.m), m |-> d.m]
    ELSE [n |-> BAdd(BShl(d.n, 10), BOfInt(est)), r |-> R1, m |-> d.m]

DivDigit(d, est) == DivCorrect(d, est, BSub(BShl(d.r, 10), BMulInt(d.m, est)))

DivStep(d) == DivDigit(d, DivEstimate(d))

DivStart(x, y) ==
    IF BGe(x.m, y.m) THEN [n |-> BOfInt(1), r |-> BSub(x.m, y.m), m |-> y.m]
    ELSE [n |-> BZero, r |-> x.m, m |-> y.m]

DivRound(d, e) == RoundNearestEven(d.n, ~BIsZero(d.r), e)

\* The quotient of two mantissas: 60 quotient bits after the leading one,
\* then rounded.
DivMantissas(x, y) ==
    DivRound(DivStep(DivStep(DivStep(DivStep(DivStep(DivStep(DivStart(x, y))))))),
             x.e - y.e - 60)

\* x / y on doubles.  (The operands are evaluated before the division is
\* entered, as Python evaluates them: TLC would otherwise evaluate
\* them on demand, nested inside the division.)
FDiv(x, y) ==
    CHOOSE q \in {DivMantissas(xv, yv) : xv \in {x}, yv \in {y}} : TRUE

\* c * x for an int 0 < c < 2^13 (converted to a double exactly) and a double x.
FMulInt(c, x) ==
    CHOOSE p \in {RoundNearestEven(BMulInt(xv.m, c), FALSE, xv.e) : xv \in {x}} : TRUE

FGt(x, y) == x.e > y.e \/ (x.e = y.e /\ ~BGe(y.m, x.m))

FGe(x, y) == ~FGt(y, x)

\* Python's min(x, y): the first argument unless the second is smaller.
FMin(x, y) == IF FGt(x, y) THEN y ELSE x

\* int(x) for a double 0 < x < 2^31: truncation.
TruncateLimbs(v) == v[1] + v[2] * Limb

Truncate(x) ==
    IF x.e <= -53 THEN 0 ELSE TruncateLimbs(BShr(x.m, 0 - x.e))

FloatToInt(x) == CHOOSE n \in {Truncate(xv) : xv \in {x}} : TRUE

(***************************************************************************)
(* Bounds of the model and the input sets drawn from them.                 *)
(***************************************************************************)
MaxDim == 3

\* Validator's upper bound on a decoded width or height.
MaxImageDim == 4000

\* Sizes at which the double arithmetic of the geometry code rounds below an
\* exact integer quotient (9x7 onto width 9, 11x11 to width 15, ...).
RoundingDims == {7, 9, 11, 15}

Dims == (1..MaxDim) \cup RoundingDims \cup {MaxImageDim}

\* A sizing parameter that may be absent: Python tests these for truth only,
\* so None and 0 select the same branch and 0 stands for both.
OptDims == Dims \cup {0}

Percentages == {1, 29, 50, 100}

(***************************************************************************)
(* Pillow: Image.resize raises ValueError("height and width must be > 0")  *)
(* for a size with a component below 1.                                    *)
(***************************************************************************)
PilResizeOk(w, h) == w >= 1 /\ h >= 1

(***************************************************************************)
(* add_blur_borders: the sharp (contain) layer and the background (cover)  *)
(* layer for a source sw x sh on a canvas tw x th.                         *)
(***************************************************************************)
Ratio(a, b) == FDiv(FromInt(a), FromInt(b))

SharpLayerCover(img_ratio, target_ratio, tw, th) ==
    IF FGt(img_ratio, target_ratio)
    THEN [w |-> FloatToInt(FMulInt(th, img_ratio)), h |-> th]
    ELSE [w |-> tw, h |-> FloatToInt(FDiv(FromInt(tw), img_ratio))]

\* The image pasted sharp: scaled to fit inside the canvas.
SharpLayer(img_ratio, target_ratio, tw, th) ==
    IF FGt(img_ratio, target_ratio)
    THEN [w |-> tw, h |-> FloatToInt(FDiv(FromInt(tw), img_ratio))]
    ELSE [w |-> FloatToInt(FMulInt(th, img_ratio)), h |-> th]

\* The image pasted blurred behind it: scaled to cover the canvas.
BackgroundLayer(img_ratio, target_ratio, sw, sh, tw, th) ==
    IF FGt(img_ratio, target_ratio)
    THEN [w |-> FloatToInt(FMulInt(th, Ratio(sw, sh))), h |-> th]
    ELSE [w |-> tw, h |-> FloatToInt(FMulInt(tw, Ratio(sh, sw)))]

\* Both layers are resized, pasted centered on the canvas and the canvas is
\* saved as PNG; any exception is re-raised as "Error processing blur".
BlurCanvas(tw, th, sharp, bg) ==
    IF PilResizeOk(sharp.w, sharp.h) /\ PilResizeOk(bg.w, bg.h)
    THEN [ok |-> TRUE, fmt |-> "PNG", w |-> tw, h |-> th,
          sharp |-> sharp, bg |-> bg,
          img_x |-> (tw - sharp.w) \div 2, img_y |-> (th - sharp.h) \div 2,
          bg_x |-> (tw - bg.w) \div 2, bg_y |-> (th - bg.h) \div 2]
    ELSE [ok |-> FALSE, err |-> "Error processing blur",
          sharp |-> sharp, bg |-> bg]

BlurLayers(sw, sh, tw, th, img_ratio, target_ratio) ==
    BlurCanvas(tw, th, SharpLayer(img_ratio, target_ratio, tw, th),
               BackgroundLayer(img_ratio, target_ratio, sw, sh, tw, th))

\* The whole call for a source sw x sh and a canvas tw x th.
AddBlurBorders(sw, sh, tw, th) ==
    BlurLayers(sw, sh, tw, th, Ratio(sw, sh), Ratio(tw, th))

(***************************************************************************)
(* resize_image: the mode is selected by the first truthy parameter.       *)
(***************************************************************************)
ScaleBy(n, scale) == FloatToInt(FMulInt(n, scale))

ScaleBoth(ow, oh, scale) == [w |-> ScaleBy(ow, scale), h |-> ScaleBy(oh, scale)]

BoxScale(ow, oh, max_width, max_height) ==
    IF max_width # 0 /\ max_height # 0
    THEN FMin(Ratio(max_width, ow), Ratio(max_height, oh))
    ELSE IF max_width # 0 THEN Ratio(max_width, ow)
    ELSE Ratio(max_height, oh)

BoxDimsAlwaysScaled(ow, oh, scale) == ScaleBoth(ow, oh, scale)

\* Bounding box: never upscale.
BoxDims(ow, oh, scale) ==
    IF FGe(scale, FromInt(1)) THEN [w |-> ow, h |-> oh]
    ELSE ScaleBoth(ow, oh, scale)

ResizeModeBothMax(width, height, percentage, max_width, max_height) ==
    IF percentage # 0 THEN "percentage"
    ELSE IF width # 0 /\ height # 0 THEN "exact"
    ELSE IF width # 0 THEN "exact_width"
    ELSE IF height # 0 THEN "exact_height"
    ELSE IF max_width # 0 /\ max_height # 0 THEN "bounding_box"
    ELSE "none"

\* The branch taken; "none" is the final else, which raises.
ResizeMode(width, height, percentage, max_width, max_height) ==
    IF percentage # 0 THEN "percentage"
    ELSE IF width # 0 /\ height # 0 THEN "exact"
    ELSE IF width # 0 THEN "exact_width"
    ELSE IF height # 0 THEN "exact_height"
    ELSE IF max_width # 0 \/ max_height # 0 THEN "bounding_box"
    ELSE "none"

\* new_width, new_height of the branch taken.
ResizeDims(ow, oh, width, height, percentage, max_width, max_height) ==
    IF percentage # 0 THEN ScaleBoth(ow, oh, Ratio(percentage, 100))
    ELSE IF width # 0 /\ height # 0 THEN [w |-> width, h |-> height]
    ELSE IF width # 0 THEN [w |-> width, h |-> ScaleBy(oh, Ratio(width, ow))]
    ELSE IF height # 0 THEN [w |-> ScaleBy(ow, Ratio(height, oh)), h |-> height]
    ELSE IF max_width # 0 \/ max_height # 0
    THEN BoxDims(ow, oh, BoxScale(ow, oh, max_width, max_height))
    ELSE [w |-> 0, h |-> 0]

\* The except clause wraps the message of what was raised: the final else's
\* own exception, or Pillow's when a side of the new size is below 1.
ResizeOutcome(mode, d) ==
    IF mode = "none"
    THEN [ok |-> FALSE, err |-> "Error resizing image",
          cause |-> "No resize parameters specified", mode |-> mode]
    ELSE IF PilResizeOk(d.w, d.h)
    THEN [ok |-> TRUE, fmt |-> "PNG", w |-> d.w, h |-> d.h, mode |-> mode]
    ELSE [ok |-> FALSE, err |-> "Error resizing image",
          cause |-> "height and width must be > 0", mode |-> mode]

\* The whole call: returns (PNG bytes, new_width, new_height) or raises
\* "Error resizing image".
ResizeImage(ow, oh, width, height, percentage, max_width, max_height) ==
    ResizeOutcome(ResizeMode(width, height, percentage, max_width, max_height),
                  ResizeDims(ow, oh, width, height, percentage, max_width, max_height))

(***************************************************************************)
(* compress_image.  A decoded image is known to the compressor only        *)
(* through the size of its JPEG encoding at each quality: an image is a    *)
(* record [base, step, gran] whose encoding at quality q has               *)
(* base + step * ((q - 1) \div gran) bytes, non-decreasing in q.           *)
(***************************************************************************)
MinQuality == 1

MaxQuality == 100

DefaultQuality == 85

BytesPerKb == 1024

MaxTargetKb == 4

Encoders == [base : {1, 1024, 1025, 5000}, step : {0, 1024}, gran : {1, 25, 100}]

\* target_size_kb or quality as passed: Python tests them for truth only, so
\* 0 stands for None as well.
TargetKbs == 0..MaxTargetKb

Qualities == {0, 1, 50, 85, 100}

EncodedSize(img, q) == img.base + img.step * ((q - 1) \div img.gran)

\* img.save(output, format='JPEG', quality=q): the bytes and their length.
Encode(img, q) == [fmt |-> "JPEG", enc |-> img, quality |-> q, len |-> EncodedSize(img, q)]

NoResult == [quality |-> 0]

MeetsTargetStrict(compressed_size, target_size_bytes) ==
    compressed_size < target_size_bytes

MeetsTarget(compressed_size, target_size_bytes) ==
    compressed_size <= target_size_bytes

MidpointLinear(min_quality, max_quality) == min_quality

\* mid_quality = (min_quality + max_quality) // 2
Midpoint(min_quality, max_quality) == (min_quality + max_quality) \div 2

\* The while loop: s is [lo, hi, best, iters].
RECURSIVE QualitySearch(_, _, _)
QualitySearch(img, target_size_bytes, s) ==
    IF s.lo > s.hi THEN s
    ELSE IF MeetsTarget(EncodedSize(img, Midpoint(s.lo, s.hi)), target_size_bytes)
    THEN QualitySearch(img, target_size_bytes,
                       [lo |-> Midpoint(s.lo, s.hi) + 1, hi |-> s.hi,
                        best |-> Encode(img, Midpoint(s.lo, s.hi)),
                        iters |-> s.iters + 1])
    ELSE QualitySearch(img, target_size_bytes,
                       [lo |-> s.lo, hi |-> Midpoint(s.lo, s.hi) - 1,
                        best |-> s.best, iters |-> s.iters + 1])

\* (compressed_data, compressed_size, quality) and the number of encodings
\* made by the search loop.
CompressResult(data, iters) ==
    [ok |-> TRUE, data |-> data, size |-> data.len, quality |-> data.quality,
     iters |-> iters]

SearchResult(img, s) ==
    IF s.best # NoResult THEN CompressResult(s.best, s.iters)
    ELSE CompressResult(Encode(img, MinQuality), s.iters)

CompressImage(img, target_size_kb, quality) ==
    IF target_size_kb # 0
    THEN SearchResult(img, QualitySearch(img, target_size_kb * BytesPerKb,
                                         [lo |-> MinQuality, hi |-> MaxQuality,
                                          best |-> NoResult, iters |-> 0]))
    ELSE IF quality # 0 THEN CompressResult(Encode(img, quality), 0)
    ELSE CompressResult(Encode(img, DefaultQuality), 0)

(***************************************************************************)
(* process_pack.  An output spec is the dict read with .get(): an absent   *)
(* width, height or compress_target reads as None, which the code treats   *)
(* as it treats 0 (add_blur_borders raises on either, resize_image and     *)
(* the compress branch test them for truth), so 0 stands for both.         *)
(***************************************************************************)
MaxPackLen == 2

\* A source of the pack: its decoded size and its JPEG encoder.
PackSources ==
    {[w |-> 1, h |-> 1, enc |-> [base |-> 1024, step |-> 1024, gran |-> 25]],
     [w |-> 3, h |-> 1, enc |-> [base |-> 1024, step |-> 1024, gran |-> 25]],
     [w |-> 1, h |-> 1, enc |-> [base |-> 1000, step |-> 1100, gran |-> 25]]}

OutputSpec(name, width, height, method, compress, compress_target) ==
    [name |-> name, width |-> width, height |-> height, method |-> method,
     compress |-> compress, compress_target |-> compress_target]

\* Specs with width > 0, height > 0 and a method of blur or resize.
PlainSpecs ==
    {OutputSpec(n, d[1], d[2], m, FALSE, 0) :
        n \in {"a", "b"}, d \in {<<1, 1>>, <<2, 1>>}, m \in {"blur", "resize"}}

CompressSpecs ==
    {OutputSpec("a", 2, 1, "resize", TRUE, t) : t \in {0, 1023, 2048, 2100}}

OtherMethodSpecs == {OutputSpec("c", 1, 1, "crop", FALSE, 0)}

PartialSpecs ==
    {OutputSpec("a", 0, 1, "blur", FALSE, 0), OutputSpec("a", 1, 0, "resize", FALSE, 0)}

OutputSpecs == PlainSpecs \cup CompressSpecs \cup OtherMethodSpecs \cup PartialSpecs

PackConfigs == UNION {[1..n -> OutputSpecs] : n \in 0..MaxPackLen}

\* Length of the PNG file of a w x h image (a header and the pixel data).
PngSize(w, h) == 67 + w * h

Png(src, w, h) == [fmt |-> "PNG", enc |-> src.enc, w |-> w, h |-> h, len |-> PngSize(w, h)]

\* method == 'blur': add_blur_borders(image_data, width, height).
PackBlur(src, output) ==
    IF output.width = 0 \/ output.height = 0
    THEN [ok |-> FALSE, err |-> "Error processing blur"]
    ELSE AddBlurBorders(src.w, src.h, output.width, output.height)

\* method == 'resize': resize_image(image_data, width=width, height=height).
PackResize(src, output) ==
    ResizeImage(src.w, src.h, output.width, output.height, 0, 0, 0)

\* The compress stage on the processed data; the JPEG has the pixel size of
\* the image it encodes.
PackCompress(data, output) ==
    IF ~output.compress THEN data
    ELSE IF output.compress_target # 0
    THEN CompressImage(data.enc, output.compress_target \div BytesPerKb, 0).data
         @@ [w |-> data.w, h |-> data.h]
    ELSE CompressImage(data.enc, 0, DefaultQuality).data
         @@ [w |-> data.w, h |-> data.h]

\* The dict appended to results; the file name is the spec's name and the
\* second of the clock at which it is generated.
PackResult(data, output, now) ==
    [data |-> data, filename |-> <<output.name, now>>, width |-> output.width,
     height |-> output.height, size |-> data.len, name |-> output.name]

PackProcessed(src, output, r, now) ==
    IF r.ok THEN [kind |-> "result",
                  result |-> PackResult(PackCompress(Png(src, r.w, r.h), output), output, now)]
    ELSE [kind |-> "raise", err |-> r.err]

\* One pass of the for loop: a result, a skip (continue) or an exception.
PackOutput(src, output, now) ==
    IF output.method = "blur" THEN PackProcessed(src, output, PackBlur(src, output), now)
    ELSE IF output.method = "resize"
    THEN PackProcessed(src, output, PackResize(src, output), now)
    ELSE [kind |-> "skip"]

(***************************************************************************)
(* Upload validation.  A file is known to the validators through the       *)
(* length of its buffer, its leading bytes (magic), whether Pillow opens   *)
(* and verifies it and with which size, and whether its bytes contain one  *)
(* of the dangerous patterns.  A file name is the sequence of its parts    *)
(* between dots ("photo.JPG" is <<"photo", "JPG">>, ".jpg" is              *)
(* <<"", "jpg">>).                                                         *)
(***************************************************************************)
MaxFileSize == 10485760

\* The signatures of validate_file_upload's magic_bytes table.
KnownMagic == {"jpg", "png", "gif", "webp"}

\* Leading bytes: a signature of the table, the BMP signature (which Pillow
\* decodes and the table does not list), or none of them.
Magics == KnownMagic \cup {"bmp", "none"}

FileNames ==
    {<<"photo", "jpg">>, <<"photo", "JPG">>, <<"photo", "png">>, <<"photo", "php">>,
     <<"jpg">>, <<"", "jpg">>}

\* What Pillow reports for the buffer: it does not open (w = h = 0 unread),
\* or it opens and verifies with this size.
Decodings ==
    {[decodable |-> FALSE, w |-> 0, h |-> 0]} \cup
    {[decodable |-> TRUE, w |-> d[1], h |-> d[2]] :
        d \in {<<1, 1>>, <<3, 1>>, <<0, 1>>, <<MaxImageDim, MaxImageDim>>,
               <<MaxImageDim + 1, 1>>, <<1, MaxImageDim + 1>>}}

\* An empty buffer has no signature, does not decode and holds no pattern;
\* a buffer with none of the signatures does not decode.
Buffers ==
    {[len |-> l, magic |-> m, decodable |-> d.decodable, w |-> d.w, h |-> d.h,
      unsafe |-> u, enc |-> [base |-> 1024, step |-> 1024, gran |-> 25]] :
        l \in {0, 1, MaxFileSize, MaxFileSize + 1}, m \in Magics, d \in Decodings,
        u \in BOOLEAN}

Files ==
    {f \in Buffers : /\ f.len = 0 => (f.magic = "none" /\ ~f.unsafe)
                     /\ f.magic = "none" => ~f.decodable}

AllowLists ==
    {<<>>, <<"jpg">>, <<"jpg", "jpeg", "png", "webp">>,
     <<"jpg", "jpeg", "png", "webp", "gif", "bmp">>}

MaxSizes == {0, 1, MaxFileSize}

\* str.lower() on the name parts in use.
Lower(s) == IF s = "JPG" THEN "jpg" ELSE s

Range(seq) == {seq[i] : i \in 1..Len(seq)}

\* os.path.splitext(filename)[1].lower().lstrip('.'): the part after the last
\* dot, empty when there is no dot or only leading dots.
SplitextExtension(filename) ==
    IF \A i \in 1..(Len(filename) - 1) : filename[i] = "" THEN ""
    ELSE Lower(filename[Len(filename)])

\* filename.lower().split('.')[-1]: the part after the last dot, the whole
\* name when there is no dot.
SplitLastExtension(filename) == Lower(filename[Len(filename)])

Accepted == [ok |-> TRUE]

Rejected(message) == [ok |-> FALSE, err |-> message]

ValidateImageFileUnverified(file, filename, max_size, allowed_extensions) ==
    IF file.len > max_size THEN Rejected("File size exceeds maximum allowed size")
    ELSE IF allowed_extensions # <<>>
            /\ SplitextExtension(filename) \notin {Lower(e) : e \in Range(allowed_extensions)}
    THEN Rejected("File type not allowed")
    ELSE IF file.w < 1 \/ file.h < 1 THEN Rejected("Invalid image dimensions")
    ELSE IF file.w > MaxImageDim \/ file.h > MaxImageDim
    THEN Rejected("Image dimensions too large")
    ELSE Accepted

ValidateImageFileWidthOnly(file, filename, max_size, allowed_extensions) ==
    IF file.len > max_size THEN Rejected("File size exceeds maximum allowed size")
    ELSE IF allowed_extensions # <<>>
            /\ SplitextExtension(filename) \notin {Lower(e) : e \in Range(allowed_extensions)}
    THEN Rejected("File type not allowed")
    ELSE IF ~file.decodable THEN Rejected("Invalid image file")
    ELSE IF file.w < 1 \/ file.h < 1 THEN Rejected("Invalid image dimensions")
    ELSE IF file.w > MaxImageDim THEN Rejected("Image dimensions too large")
    ELSE Accepted

\* utils/image_processor.py, the validator of the upload route.
ValidateImageFile(file, filename, max_size, allowed_extensions) ==
    IF file.len > max_size THEN Rejected("File size exceeds maximum allowed size")
    ELSE IF allowed_extensions # <<>>
            /\ SplitextExtension(filename) \notin {Lower(e) : e \in Range(allowed_extensions)}
    THEN Rejected("File type not allowed")
    ELSE IF ~file.decodable THEN Rejected("Invalid image file")
    ELSE IF file.w < 1 \/ file.h < 1 THEN Rejected("Invalid image dimensions")
    ELSE IF file.w > MaxImageDim \/ file.h > MaxImageDim
    THEN Rejected("Image dimensions too large")
    ELSE Accepted

\* utils/security.py: any signature of the table is accepted, whatever the
\* extension.
ValidateFileUpload(file, filename, max_size, allowed_extensions) ==
    IF file.len > max_size THEN Rejected("File too large")
    ELSE IF allowed_extensions # <<>>
            /\ SplitLastExtension(filename) \notin {Lower(e) : e \in Range(allowed_extensions)}
    THEN Rejected("File type not allowed")
    ELSE IF file.magic \notin KnownMagic THEN Rejected("Invalid file format")
    ELSE IF file.unsafe THEN Rejected("Dangerous content detected in file")
    ELSE Accepted

\* get_image_info: the metadata dict, or an exception when Pillow cannot open
\* the buffer.
GetImageInfo(file) ==
    IF file.decodable
    THEN [ok |-> TRUE, width |-> file.w, height |-> file.h, size |-> file.len]
    ELSE Rejected("Error getting image info")

(***************************************************************************)
(* State.  Each entry point of the engine is exercised from its own        *)
(* initial condition; the variables of the others stay idle.               *)
(*   geo  the geometry call (add_blur_borders, resize_image) on a source   *)
(*   cmp  the compress_image call on a source                              *)
(*   pk   the run of process_pack: its loop position and results           *)
(*   val  the validator call on a file                                     *)
(*   web  the session of the image routes: the stored upload, the          *)
(*        transformation the last request ran, its response, the rows      *)
(*        saved                                                            *)
(***************************************************************************)
VARIABLES geo, cmp, pk, val, web

vars == <<geo, cmp, pk, val, web>>

NoCall == [fn |-> "none"]

(***************************************************************************)
(* Geometry calls.                                                         *)
(***************************************************************************)
GeoIdle == geo.fn = "source"

InitGeometry ==
    /\ \E s \in (Dims \X Dims) \cup {<<800, 600>>, <<1000, 800>>} :
          geo = [fn |-> "source", sw |-> s[1], sh |-> s[2]]
    /\ cmp = NoCall /\ pk = NoCall /\ val = NoCall /\ web = NoCall

CallBlur ==
    /\ GeoIdle
    /\ \E t \in (Dims \X Dims) \cup {<<1080, 1080>>} :
          geo' = [fn |-> "blur", sw |-> geo.sw, sh |-> geo.sh, tw |-> t[1], th |-> t[2],
                  res |-> AddBlurBorders(geo.sw, geo.sh, t[1], t[2])]
    /\ UNCHANGED <<cmp, pk, val, web>>

ResizeCall(width, height, percentage, max_width, max_height) ==
    /\ geo' = [fn |-> "resize", sw |-> geo.sw, sh |-> geo.sh,
               width |-> width, height |-> height, percentage |-> percentage,
               max_width |-> max_width, max_height |-> max_height, again |-> FALSE,
               res |-> ResizeImage(geo.sw, geo.sh, width, height, percentage,
                                   max_width, max_height)]
    /\ UNCHANGED <<cmp, pk, val, web>>

\* The parameters of a call, by the mode they select; <<0, 0, 0, 0, 0>> is the
\* call without any sizing parameter, the last four are calls with several
\* parameters at once and with negative sizes.
ResizeParams ==
    {<<0, 0, p, 0, 0>> : p \in Percentages}
    \cup {<<w, h, 0, 0, 0>> : w \in OptDims, h \in OptDims}
    \cup {<<0, 0, 0, mw, mh>> : mw \in OptDims, mh \in OptDims}
    \cup {<<1, 0, 50, 0, 1>>, <<0, 2, 0, 3, 0>>, <<1, 1, 0, 1, 1>>, <<-1, -1, 0, 0, 0>>}

CallResize ==
    /\ GeoIdle
    /\ \E p \in ResizeParams : ResizeCall(p[1], p[2], p[3], p[4], p[5])

\* resize_image applied, with the same parameters, to the image it returned
\* (an image that is itself within the validator's dimension bounds).
CallResizeAgain ==
    /\ geo.fn = "resize" /\ ~geo.again /\ geo.res.ok
    /\ geo.res.w <= MaxImageDim /\ geo.res.h <= MaxImageDim
    /\ geo' = [geo EXCEPT !.sw = geo.res.w, !.sh = geo.res.h, !.again = TRUE,
                          !.res = ResizeImage(geo.res.w, geo.res.h, geo.width,
                                              geo.height, geo.percentage,
                                              geo.max_width, geo.max_height)]
       @@ [first |-> geo]
    /\ UNCHANGED <<cmp, pk, val, web>>

NextGeometry == CallBlur \/ CallResize \/ CallResizeAgain

SpecGeometry == InitGeometry /\ [][NextGeometry]_vars

\* C3: add_blur_borders succeeds for every source and target size in
\* [1, 4000]: the canvas has exactly the target size and both the sharp and
\* the background layer have width >= 1 and height >= 1.
C3_CompositeAlwaysSucceeds ==
    geo.fn = "blur" =>
        /\ geo.res.ok
        /\ geo.res.w = geo.tw /\ geo.res.h = geo.th
        /\ geo.res.sharp.w >= 1 /\ geo.res.sharp.h >= 1
        /\ geo.res.bg.w >= 1 /\ geo.res.bg.h >= 1

\* A 3 x 1 source on a 1 x 1 canvas: the sharp layer is 1 x int(1 / 3.0),
\* of height 0, and the call raises.
C3_ElongatedSourceRaises ==
    /\ geo.fn = "blur" /\ geo.sw = 3 /\ geo.sh = 1 /\ geo.tw = 1 /\ geo.th = 1
    /\ ~geo.res.ok /\ geo.res.sharp.h = 0

\* C8: a bounding_box resize never upscales: a source already within the box
\* keeps its size; a returned size is within the box; and the resize applied
\* again, with the same box, to its own output returns the size unchanged.
C8_BoundingBoxNeverUpscales ==
    (geo.fn = "resize" /\ geo.res.mode = "bounding_box") =>
        /\ ((geo.max_width = 0 \/ geo.sw <= geo.max_width)
              /\ (geo.max_height = 0 \/ geo.sh <= geo.max_height))
           => (geo.res.ok /\ geo.res.w = geo.sw /\ geo.res.h = geo.sh)
        /\ geo.res.ok => /\ geo.max_width # 0 => geo.res.w <= geo.max_width
                         /\ geo.max_height # 0 => geo.res.h <= geo.max_height
        /\ geo.again => (geo.res.ok /\ geo.res.w = geo.sw /\ geo.res.h = geo.sh)

\* A source larger than the box was scaled down and the resize was applied
\* again to the result.
C8_DownscaledThenAgain ==
    /\ geo.fn = "resize" /\ geo.res.mode = "bounding_box" /\ geo.again
    /\ geo.max_width # 0 /\ geo.max_height # 0
    /\ geo.first.res.w < geo.first.sw /\ geo.first.res.h < geo.first.sh

\* C9: in the exact_width mode new_w is the requested width and new_h is less
\* than one pixel away from sh * w / sw; symmetrically for exact_height.
C9_AspectWithinOnePixel ==
    (geo.fn = "resize" /\ geo.res.ok) =>
        /\ geo.res.mode = "exact_width" =>
              /\ geo.res.w = geo.width
              /\ geo.res.h * geo.sw - geo.sh * geo.width < geo.sw
              /\ geo.sh * geo.width - geo.res.h * geo.sw < geo.sw
        /\ geo.res.mode = "exact_height" =>
              /\ geo.res.h = geo.height
              /\ geo.res.w * geo.sh - geo.sw * geo.height < geo.sh
              /\ geo.sw * geo.height - geo.res.w * geo.sh < geo.sh

\* An 11 x 11 source resized to width 15 comes back 15 x 14: the exact height
\* is 15, a whole pixel away.
C9_OffByOnePixel ==
    /\ geo.fn = "resize" /\ ~geo.again /\ geo.sw = 11 /\ geo.sh = 11
    /\ geo.width = 15 /\ geo.height = 0 /\ geo.percentage = 0
    /\ geo.res.ok /\ geo.res.w = 15 /\ geo.res.h = 14

\* C14: resize_image raises "No resize parameters specified", and returns
\* nothing, exactly when none of percentage, width, height, max_width and
\* max_height is supplied (an absent parameter and a 0 alike); with one of
\* them positive a mode is selected and that exception is not raised.
C14_InvalidParametersIffNoneSupplied ==
    geo.fn = "resize" =>
        LET none == geo.percentage = 0 /\ geo.width = 0 /\ geo.height = 0
                    /\ geo.max_width = 0 /\ geo.max_height = 0
            positive == geo.percentage > 0 \/ geo.width > 0 \/ geo.height > 0
                        \/ geo.max_width > 0 \/ geo.max_height > 0
            invalid == ~geo.res.ok /\ geo.res.cause = "No resize parameters specified"
        IN  /\ invalid <=> none
            /\ positive => (geo.res.mode # "none" /\ ~invalid)

\* The call without any sizing parameter raised for that reason.
C14_NothingSuppliedRaises ==
    /\ geo.fn = "resize" /\ ~geo.res.ok /\ geo.res.mode = "none"
    /\ geo.percentage = 0 /\ geo.width = 0 /\ geo.height = 0
    /\ geo.max_width = 0 /\ geo.max_height = 0
    /\ geo.res.cause = "No resize parameters specified"

\* C17: in the percentage mode new_w and new_h are sw * p / 100 and
\* sh * p / 100 rounded to the nearest integer (at most half a pixel away),
\* and the call returns whenever both round to at least 1.
C17_PercentageRoundsToNearest ==
    (geo.fn = "resize" /\ geo.res.mode = "percentage") =>
        /\ geo.res.ok =>
              /\ 100 * geo.res.w - geo.sw * geo.percentage <= 50
              /\ geo.sw * geo.percentage - 100 * geo.res.w <= 50
              /\ 100 * geo.res.h - geo.sh * geo.percentage <= 50
              /\ geo.sh * geo.percentage - 100 * geo.res.h <= 50
        /\ (2 * geo.sw * geo.percentage > 100 /\ 2 * geo.sh * geo.percentage > 100)
              => geo.res.ok

\* A 9 x 9 source at 29 percent comes back 2 x 2: 2.61 is truncated, its
\* nearest integer is 3.
C17_TruncatedNotRounded ==
    /\ geo.fn = "resize" /\ ~geo.again /\ geo.sw = 9 /\ geo.sh = 9
    /\ geo.percentage = 29 /\ geo.width = 0
    /\ geo.res.ok /\ geo.res.w = 2 /\ geo.res.h = 2

\* C21: the background layer of a composite is at least as wide and as high
\* as the canvas, with equality on one axis, so that its paste offsets are
\* <= 0 and it covers the canvas.
C21_BackgroundCoversCanvas ==
    (geo.fn = "blur" /\ geo.res.ok) =>
        /\ geo.res.bg.w >= geo.tw /\ geo.res.bg.h >= geo.th
        /\ (geo.res.bg.w = geo.tw \/ geo.res.bg.h = geo.th)
        /\ geo.res.bg_x <= 0 /\ geo.res.bg_y <= 0

\* An 11 x 15 source on an 11 x 15 canvas: the background layer is 11 x 14,
\* one row short of the canvas.
C21_BackgroundOneRowShort ==
    /\ geo.fn = "blur" /\ geo.res.ok
    /\ geo.sw = 11 /\ geo.sh = 15 /\ geo.tw = 11 /\ geo.th = 15
    /\ geo.res.bg.w = 11 /\ geo.res.bg.h = 14 /\ geo.res.bg_y = 0

\* C22: the sharp layer of a composite fits inside the canvas with equality
\* on one axis (the width when sw/sh > tw/th, the height otherwise); it is
\* pasted at ((tw - new_w) div 2, (th - new_h) div 2), both >= 0, and the
\* margins on opposite sides differ by at most one pixel; 800 x 600 on
\* 1080 x 1080 gives a 1080 x 810 layer at vertical offset 135.
C22_SharpLayerContainedCentered ==
    geo.fn = "blur" =>
        /\ geo.res.sharp.w <= geo.tw /\ geo.res.sharp.h <= geo.th
        /\ IF geo.sw * geo.th > geo.tw * geo.sh
           THEN geo.res.sharp.w = geo.tw ELSE geo.res.sharp.h = geo.th
        /\ geo.res.ok =>
              /\ geo.res.img_x >= 0 /\ geo.res.img_y >= 0
              /\ 2 * geo.res.img_x \in {geo.tw - geo.res.sharp.w,
                                        geo.tw - geo.res.sharp.w - 1}
              /\ 2 * geo.res.img_y \in {geo.th - geo.res.sharp.h,
                                        geo.th - geo.res.sharp.h - 1}
        /\ (geo.sw = 800 /\ geo.sh = 600 /\ geo.tw = 1080 /\ geo.th = 1080) =>
              /\ geo.res.ok /\ geo.res.sharp = [w |-> 1080, h |-> 810]
              /\ geo.res.img_x = 0 /\ geo.res.img_y = 135

\* The example: 800 x 600 composited on 1080 x 1080.
C22_LandscapeOnSquare ==
    /\ geo.fn = "blur" /\ geo.res.ok
    /\ geo.sw = 800 /\ geo.sh = 600 /\ geo.tw = 1080 /\ geo.th = 1080
    /\ geo.res.sharp.h = 810 /\ geo.res.img_y = 135

\* C25: a resize request that selects a mode with positive parameters
\* computes a new width and a new height of at least 1: the resize step is
\* never handed a zero dimension and does not raise for it.
C25_ResizeDimsPositive ==
    (/\ geo.fn = "resize" /\ geo.res.mode # "none"
     /\ geo.percentage >= 0 /\ geo.percentage <= 100
     /\ geo.width >= 0 /\ geo.height >= 0
     /\ geo.max_width >= 0 /\ geo.max_height >= 0) =>
        (geo.res.ok /\ geo.res.w >= 1 /\ geo.res.h >= 1)

\* A 3 x 1 source resized to width 1: the new height is int(1 * (1 / 3)) = 0
\* and Pillow's resize raises.
C25_ZeroHeightRaises ==
    /\ geo.fn = "resize" /\ ~geo.again /\ geo.sw = 3 /\ geo.sh = 1
    /\ geo.width = 1 /\ geo.height = 0 /\ geo.percentage = 0
    /\ ~geo.res.ok /\ geo.res.cause = "height and width must be > 0"

(***************************************************************************)
(* Compression calls.                                                      *)
(***************************************************************************)
InitCompress ==
    /\ \E img \in Encoders : cmp = [fn |-> "source", img |-> img]
    /\ geo = NoCall /\ pk = NoCall /\ val = NoCall /\ web = NoCall

CompressCall(by, target_size_kb, quality) ==
    /\ cmp.fn = "source"
    /\ cmp' = [fn |-> "compress", img |-> cmp.img, by |-> by,
               target_size_kb |-> target_size_kb, quality |-> quality,
               res |-> CompressImage(cmp.img, target_size_kb, quality)]
    /\ UNCHANGED <<geo, pk, val, web>>

\* compress_image(data, target_size_kb=kb)
CallCompressTarget == \E kb \in TargetKbs : CompressCall("target_size", kb, 0)

\* compress_image(data, quality=q)
CallCompressQuality == \E q \in Qualities : CompressCall("quality", 0, q)

NextCompress == CallCompressTarget \/ CallCompressQuality

SpecCompress == InitCompress /\ [][NextCompress]_vars

\* The target of a compress_image(data, target_size_kb=kb) call, in bytes.
TargetBytes == cmp.target_size_kb * BytesPerKb

\* C1: a call with a target size returns a size <= the target when the target
\* is at least the quality-1 size, and otherwise succeeds with the quality-1
\* encoding, quality 1 and a size above the target.
C1_CompressTargetBound ==
    (cmp.fn = "compress" /\ cmp.by = "target_size") =>
        IF TargetBytes >= EncodedSize(cmp.img, MinQuality)
        THEN cmp.res.ok /\ cmp.res.size <= TargetBytes
        ELSE /\ cmp.res.ok
             /\ cmp.res.data = Encode(cmp.img, MinQuality)
             /\ cmp.res.quality = MinQuality
             /\ cmp.res.size > TargetBytes

\* A target of 0 KB is taken for no target: the quality-85 encoding comes
\* back.
C1_ZeroTargetFallsToDefault ==
    /\ cmp.fn = "compress" /\ cmp.by = "target_size" /\ cmp.target_size_kb = 0
    /\ cmp.res.quality = DefaultQuality /\ cmp.res.size > TargetBytes

\* C2: for a reachable target the search returns the largest quality in
\* 1..100 whose encoding is within the target, with the bytes and the size
\* of the encoding at that quality.
C2_SearchReturnsLargestQuality ==
    (cmp.fn = "compress" /\ cmp.by = "target_size"
       /\ TargetBytes >= EncodedSize(cmp.img, MinQuality)) =>
        /\ cmp.res.quality \in MinQuality..MaxQuality
        /\ EncodedSize(cmp.img, cmp.res.quality) <= TargetBytes
        /\ \A q \in MinQuality..MaxQuality :
              EncodedSize(cmp.img, q) <= TargetBytes => q <= cmp.res.quality
        /\ cmp.res.data = Encode(cmp.img, cmp.res.quality)
        /\ cmp.res.size = EncodedSize(cmp.img, cmp.res.quality)

\* A search that ends strictly inside 1..100 on an encoding of exactly the
\* target size.
C2_ExactFitInsideRange ==
    /\ cmp.fn = "compress" /\ cmp.by = "target_size"
    /\ cmp.res.quality = 50 /\ cmp.res.size = TargetBytes
    /\ EncodedSize(cmp.img, 51) > TargetBytes

(***************************************************************************)
(* The search loop of compress_image, one iteration at a time.  Whether    *)
(* the encoding at the midpoint is within the target is the encoder's      *)
(* answer; each quality is encoded at most once in a search, so either     *)
(* answer at each iteration covers every size function and every target.   *)
(* The call is synchronous and runs to completion, hence the fairness.     *)
(***************************************************************************)
InitSearch ==
    /\ cmp = [fn |-> "search", min_quality |-> MinQuality, max_quality |-> MaxQuality,
              best_result |-> NoResult, iters |-> 0]
    /\ geo = NoCall /\ pk = NoCall /\ val = NoCall /\ web = NoCall

SearchLooping == cmp.fn = "search" /\ cmp.min_quality <= cmp.max_quality

\* compressed_size <= target_size_bytes: record the result, try higher.
SearchFits ==
    /\ SearchLooping
    /\ cmp' = [cmp EXCEPT
                 !.best_result = [quality |-> Midpoint(cmp.min_quality, cmp.max_quality)],
                 !.min_quality = Midpoint(cmp.min_quality, cmp.max_quality) + 1,
                 !.iters = cmp.iters + 1]
    /\ UNCHANGED <<geo, pk, val, web>>

\* else: try lower.
SearchExceeds ==
    /\ SearchLooping
    /\ cmp' = [cmp EXCEPT
                 !.max_quality = Midpoint(cmp.min_quality, cmp.max_quality) - 1,
                 !.iters = cmp.iters + 1]
    /\ UNCHANGED <<geo, pk, val, web>>

\* After the loop: best_result, or the quality-1 encoding.
SearchReturn ==
    /\ cmp.fn = "search" /\ cmp.min_quality > cmp.max_quality
    /\ cmp' = [fn |-> "returned", iters |-> cmp.iters,
               quality |-> IF cmp.best_result # NoResult THEN cmp.best_result.quality
                           ELSE MinQuality]
    /\ UNCHANGED <<geo, pk, val, web>>

NextSearch == SearchFits \/ SearchExceeds \/ SearchReturn

SpecSearch == InitSearch /\ [][NextSearch]_vars /\ WF_vars(NextSearch)

\* C12: the binary search over the qualities 1..100 makes at most 7
\* iterations, whatever the encoder answers, and then returns.
C12_SearchEndsWithinSeven == [](cmp.iters <= 7) /\ <>(cmp.fn = "returned")

\* A search that returned after exactly 7 iterations.
C12_SevenIterations == cmp.fn = "returned" /\ cmp.iters = 7

(***************************************************************************)
(* A run of process_pack, one pass of its loop at a time.  The clock that  *)
(* datetime.now() reads counts seconds and may advance between passes.     *)
(***************************************************************************)
MaxClock == 1

InitPack ==
    /\ \E src \in PackSources : pk = [fn |-> "source", src |-> src]
    /\ geo = NoCall /\ cmp = NoCall /\ val = NoCall /\ web = NoCall

\* process_pack(image_data, pack_config): entry, results = [].
CallProcessPack ==
    /\ pk.fn = "source"
    /\ \E outputs \in PackConfigs :
          pk' = [fn |-> "running", src |-> pk.src, outputs |-> outputs, i |-> 1,
                 results |-> <<>>, now |-> 0, first |-> NoCall]
    /\ UNCHANGED <<geo, cmp, val, web>>

\* A second invocation with the same image_data and pack_config, after the
\* first has returned; what the first returned is kept for comparison.
CallProcessPackAgain ==
    /\ pk.fn = "returned" /\ pk.first = NoCall
    /\ pk' = [pk EXCEPT !.fn = "running", !.i = 1, !.results = <<>>,
                        !.first = [fn |-> "returned", results |-> pk.results]]
    /\ UNCHANGED <<geo, cmp, val, web>>

PackPassKeepsPartial(o) ==
    IF o.kind = "result"
    THEN pk' = [pk EXCEPT !.i = pk.i + 1, !.results = Append(pk.results, o.result),
                          !.now = o.result.filename[2]]
    ELSE IF o.kind = "skip" THEN pk' = [pk EXCEPT !.i = pk.i + 1]
    ELSE pk' = [pk EXCEPT !.fn = "returned"]

\* What one pass does to the run: append, continue, or leave through the
\* except clause (the results built so far are dropped with the frame).
PackPass(o) ==
    IF o.kind = "result"
    THEN pk' = [pk EXCEPT !.i = pk.i + 1, !.results = Append(pk.results, o.result),
                          !.now = o.result.filename[2]]
    ELSE IF o.kind = "skip" THEN pk' = [pk EXCEPT !.i = pk.i + 1]
    ELSE pk' = [fn |-> "raised", src |-> pk.src, outputs |-> pk.outputs,
                err |-> "Error processing pack", cause |-> o.err, at |-> pk.i]

PackIteration ==
    /\ pk.fn = "running" /\ pk.i <= Len(pk.outputs)
    /\ \E now \in pk.now..MaxClock : PackPass(PackOutput(pk.src, pk.outputs[pk.i], now))
    /\ UNCHANGED <<geo, cmp, val, web>>

\* return results
PackReturn ==
    /\ pk.fn = "running" /\ pk.i > Len(pk.outputs)
    /\ pk' = [pk EXCEPT !.fn = "returned"]
    /\ UNCHANGED <<geo, cmp, val, web>>

NextPack == CallProcessPack \/ PackIteration \/ PackReturn \/ CallProcessPackAgain

SpecPack == InitPack /\ [][NextPack]_vars

PackFinished == pk.fn \in {"returned", "raised"}

\* C4: a pack of N specs, each with width > 0, height > 0 and a method of
\* blur or resize, returns exactly N results, the i-th carrying the name of
\* the i-th spec.
C4_ValidPackReturnsAllInOrder ==
    (PackFinished
       /\ \A i \in 1..Len(pk.outputs) :
             /\ pk.outputs[i].width > 0 /\ pk.outputs[i].height > 0
             /\ pk.outputs[i].method \in {"blur", "resize"}) =>
        /\ pk.fn = "returned"
        /\ Len(pk.results) = Len(pk.outputs)
        /\ \A i \in 1..Len(pk.outputs) : pk.results[i].name = pk.outputs[i].name

\* A 3 x 1 source and a pack with one valid spec, blur 1 x 1: the pack raises.
C4_ValidPackRaises ==
    /\ pk.fn = "raised" /\ pk.src.w = 3 /\ pk.src.h = 1
    /\ pk.outputs = <<OutputSpec("a", 1, 1, "blur", FALSE, 0)>>
    /\ pk.cause = "Error processing blur"

\* The specs of a pack whose method is blur or resize, in their order.
RECURSIVE Recognised(_)
Recognised(outputs) ==
    IF outputs = <<>> THEN <<>>
    ELSE IF Head(outputs).method \in {"blur", "resize"}
    THEN <<Head(outputs)>> \o Recognised(Tail(outputs))
    ELSE Recognised(Tail(outputs))

\* C10: a spec with another method is skipped without raising: when every
\* other spec is valid, the pack returns one result for each of the others,
\* in their order.
C10_UnrecognisedMethodSkipped ==
    (/\ PackFinished
     /\ \E i \in 1..Len(pk.outputs) : pk.outputs[i].method \notin {"blur", "resize"}
     /\ \A j \in 1..Len(pk.outputs) :
           pk.outputs[j].method \in {"blur", "resize"} =>
              (pk.outputs[j].width > 0 /\ pk.outputs[j].height > 0)) =>
        /\ pk.fn = "returned"
        /\ Len(pk.results) = Len(Recognised(pk.outputs))
        /\ \A k \in 1..Len(pk.results) : pk.results[k].name = Recognised(pk.outputs)[k].name

\* A spec of method crop followed by the valid spec blur 1 x 1, on a 3 x 1
\* source: the first is skipped, the second raises and nothing is returned.
C10_SkippedThenRaised ==
    /\ pk.fn = "raised" /\ pk.at = 2 /\ pk.src.w = 3
    /\ pk.outputs[1].method = "crop"
    /\ pk.outputs[2] = OutputSpec("a", 1, 1, "blur", FALSE, 0)

\* C11: in a returned pack, the data of a spec with compress and a
\* compress_target (bytes) is the target-size search's answer for that
\* budget: the encoding of the best quality within the budget when quality 1
\* is within it, the quality-1 encoding otherwise, never the quality-85
\* default; with compress and no compress_target it is the quality-85
\* encoding; without compress it is the uncompressed PNG.
C11_CompressFollowsSpec ==
    pk.fn = "returned" =>
        \A k \in 1..Len(pk.results) :
            LET o == Recognised(pk.outputs)[k]
                d == pk.results[k].data
            IN  /\ ~o.compress => d.fmt = "PNG"
                /\ (o.compress /\ o.compress_target = 0) =>
                      /\ d.fmt = "JPEG" /\ d.quality = DefaultQuality
                      /\ d.len = EncodedSize(d.enc, DefaultQuality)
                /\ (o.compress /\ o.compress_target # 0) =>
                      /\ d.fmt = "JPEG"
                      /\ IF EncodedSize(d.enc, MinQuality) <= o.compress_target
                         THEN /\ d.len <= o.compress_target
                              /\ \A q \in MinQuality..MaxQuality :
                                    EncodedSize(d.enc, q) <= o.compress_target
                                        => q <= d.quality
                         ELSE d.quality = MinQuality

\* A budget of 2100 bytes is searched as 2 KB = 2048 bytes: quality 25 comes
\* back although the encoding at quality 50 has exactly 2100 bytes.
C11_BudgetRoundedDown ==
    /\ pk.fn = "returned" /\ pk.src.enc.base = 1000
    /\ pk.outputs = <<OutputSpec("a", 2, 1, "resize", TRUE, 2100)>>
    /\ pk.results[1].data.quality = 25
    /\ EncodedSize(pk.src.enc, 50) = 2100

\* C13: two invocations of process_pack with the same image and the same
\* pack configuration return identical results, field by field, whenever
\* each of them runs.
C13_SameInputsSameResults ==
    (pk.fn = "returned" /\ pk.first # NoCall) => pk.results = pk.first.results

\* The second invocation of a one-spec pack returned the same data under
\* another file name: the clock had advanced.
C13_FilenameFollowsClock ==
    /\ pk.fn = "returned" /\ pk.first # NoCall /\ Len(pk.results) = 1
    /\ pk.results[1].data = pk.first.results[1].data
    /\ pk.results[1].filename # pk.first.results[1].filename

\* C15: a pack holding a spec of method blur or resize whose width or height
\* is missing or not positive produces no result for it: the run ends in an
\* exception.
C15_MalformedSpecRejected ==
    (/\ PackFinished
     /\ \E i \in 1..Len(pk.outputs) :
           /\ pk.outputs[i].method \in {"blur", "resize"}
           /\ (pk.outputs[i].width <= 0 \/ pk.outputs[i].height <= 0)) =>
        pk.fn = "raised"

\* A resize spec with width 1 and no height, on a 1 x 1 source: the pack
\* returns a 1 x 1 image whose result carries the missing height.
C15_MissingHeightReturned ==
    /\ pk.fn = "returned" /\ pk.src.w = 1 /\ pk.src.h = 1
    /\ pk.outputs = <<OutputSpec("a", 1, 0, "resize", FALSE, 0)>>
    /\ Len(pk.results) = 1 /\ pk.results[1].height = 0
    /\ pk.results[1].data.w = 1 /\ pk.results[1].data.h = 1

\* C20: the file names of the results of one returned pack are pairwise
\* distinct.
C20_FilenamesDistinct ==
    pk.fn = "returned" =>
        \A j \in 1..Len(pk.results), k \in 1..Len(pk.results) :
            j # k => pk.results[j].filename # pk.results[k].filename

\* Two specs of the same name processed within one second of the clock: both
\* results carry the same file name, with different data.
C20_SameNameSameSecond ==
    /\ pk.fn = "returned" /\ Len(pk.results) = 2
    /\ pk.outputs[1].name = pk.outputs[2].name
    /\ pk.results[1].filename = pk.results[2].filename
    /\ pk.results[1].data # pk.results[2].data

\* C23: process_pack is all-or-nothing: a run that raises hands no result
\* to its caller, a run that returns hands over the complete list, one
\* result for each spec of method blur or resize, and in both cases the
\* image and the pack configuration passed in stay as they were.
C23_PackAllOrNothing ==
    /\ [](pk.fn = "raised" => "results" \notin DOMAIN pk)
    /\ [](pk.fn = "returned" => Len(pk.results) = Len(Recognised(pk.outputs)))
    /\ [][pk.fn # "source" => (pk'.src = pk.src /\ pk'.outputs = pk.outputs)]_vars

\* On a 3 x 1 source the first spec, resize 1 x 1, produced a result and the
\* second, blur 1 x 1, raised: the caller gets the exception alone.
C23_RaisedAfterFirstResult ==
    /\ pk.fn = "raised" /\ pk.at = 2 /\ pk.src.w = 3
    /\ pk.outputs[1] = OutputSpec("a", 1, 1, "resize", FALSE, 0)
    /\ pk.outputs[2] = OutputSpec("a", 1, 1, "blur", FALSE, 0)
    /\ "results" \notin DOMAIN pk

\* C24: every result of a returned pack is self-consistent: its size is the
\* length of its data and its width and height are those declared by its
\* spec and those of the image in its data.
C24_ResultsSelfConsistent ==
    pk.fn = "returned" =>
        \A k \in 1..Len(pk.results) :
            /\ pk.results[k].size = pk.results[k].data.len
            /\ pk.results[k].width = Recognised(pk.outputs)[k].width
            /\ pk.results[k].height = Recognised(pk.outputs)[k].height
            /\ pk.results[k].width = pk.results[k].data.w
            /\ pk.results[k].height = pk.results[k].data.h

\* A pack of a valid spec and a resize spec without height, on a 1 x 1
\* source: the first result is consistent, the second reports the missing
\* height for an image 1 pixel high.
C24_ReportedHeightNotActual ==
    /\ pk.fn = "returned" /\ Len(pk.results) = 2
    /\ pk.results[1].width = pk.results[1].data.w
    /\ pk.results[1].height = pk.results[1].data.h
    /\ pk.outputs[2].method = "resize" /\ pk.outputs[2].height = 0
    /\ pk.results[2].height = 0 /\ pk.results[2].data.h = 1

(***************************************************************************)
(* Validator calls on a file and its name.                                 *)
(***************************************************************************)
InitValidate ==
    /\ \E file \in Files, filename \in FileNames :
          val = [fn |-> "file", file |-> file, filename |-> filename]
    /\ geo = NoCall /\ cmp = NoCall /\ pk = NoCall /\ web = NoCall

CallValidateImageFile ==
    /\ val.fn = "file"
    /\ \E max_size \in MaxSizes, allowed_extensions \in AllowLists :
          val' = [fn |-> "validate_image_file", file |-> val.file,
                  filename |-> val.filename, max_size |-> max_size,
                  allowed_extensions |-> allowed_extensions,
                  res |-> ValidateImageFile(val.file, val.filename, max_size,
                                            allowed_extensions)]
    /\ UNCHANGED <<geo, cmp, pk, web>>

CallValidateFileUpload ==
    /\ val.fn = "file"
    /\ \E max_size \in MaxSizes, allowed_extensions \in AllowLists :
          val' = [fn |-> "validate_file_upload", file |-> val.file,
                  filename |-> val.filename, max_size |-> max_size,
                  allowed_extensions |-> allowed_extensions,
                  res |-> ValidateFileUpload(val.file, val.filename, max_size,
                                             allowed_extensions)]
    /\ UNCHANGED <<geo, cmp, pk, web>>

NextValidate == CallValidateImageFile \/ CallValidateFileUpload

SpecValidate == InitValidate /\ [][NextValidate]_vars

\* C5: the validator applies size, extension allow-list, magic bytes,
\* decodability, dimension bounds and content safety in this order and
\* returns the rejection of the first check that fails, Valid only when all
\* six pass.  (Stated for names with an extension after a dot, the upload
\* route's validator; the messages are read as the kinds of the taxonomy.)
C5_SixChecksInOrder ==
    (val.fn = "validate_image_file" /\ Len(val.filename) = 2 /\ val.filename[1] # "") =>
        LET f == val.file
            expected ==
                IF f.len > val.max_size THEN "SizeLimitExceeded"
                ELSE IF val.allowed_extensions # <<>>
                        /\ Lower(val.filename[2]) \notin Range(val.allowed_extensions)
                THEN "UnsupportedExtension"
                ELSE IF f.magic \notin KnownMagic THEN "UnrecognizedFormat"
                ELSE IF ~f.decodable THEN "CorruptImage"
                ELSE IF f.w < 1 \/ f.h < 1 \/ f.w > MaxImageDim \/ f.h > MaxImageDim
                THEN "DimensionOutOfRange"
                ELSE IF f.unsafe THEN "UnsafeContent"
                ELSE "Valid"
            kind ==
                IF val.res.ok THEN "Valid"
                ELSE IF val.res.err = "File size exceeds maximum allowed size"
                THEN "SizeLimitExceeded"
                ELSE IF val.res.err = "File type not allowed" THEN "UnsupportedExtension"
                ELSE IF val.res.err = "Invalid image file" THEN "CorruptImage"
                ELSE "DimensionOutOfRange"
        IN  kind = expected

\* A decodable 1 x 1 PNG named photo.png whose bytes hold a dangerous
\* pattern is accepted by the upload route's validator.
C5_UnsafeContentAccepted ==
    /\ val.fn = "validate_image_file" /\ val.res.ok
    /\ val.filename = <<"photo", "png">> /\ val.file.magic = "png"
    /\ val.file.unsafe /\ val.max_size = MaxFileSize

\* C7: a buffer that begins with the PNG signature, named with the extension
\* jpg and validated against the allow-list [jpg], passes the extension
\* check and is rejected by the magic-byte check (UnrecognizedFormat).
C7_MagicCheckedAgainstExtension ==
    (/\ val.fn = "validate_file_upload"
     /\ val.file.magic = "png" /\ val.filename = <<"photo", "jpg">>
     /\ val.allowed_extensions = <<"jpg">> /\ val.file.len <= val.max_size) =>
        (~val.res.ok /\ val.res.err = "Invalid file format")

\* Such a buffer, free of dangerous patterns, is accepted.
C7_PngNamedJpgAccepted ==
    /\ val.fn = "validate_file_upload" /\ val.res.ok
    /\ val.file.magic = "png" /\ val.filename = <<"photo", "jpg">>
    /\ val.allowed_extensions = <<"jpg">>

\* The size and the extension check of validate_image_file let the call
\* through to the decoding.
ReachesDecode ==
    /\ val.fn = "validate_image_file" /\ val.file.len <= val.max_size
    /\ \/ val.allowed_extensions = <<>>
       \/ SplitextExtension(val.filename)
              \in {Lower(e) : e \in Range(val.allowed_extensions)}

C18_UnsafeContentRejected ==
    (val.fn \in {"validate_image_file", "validate_file_upload"} /\ val.file.unsafe)
        => ~val.res.ok

\* A decodable 1 x 1 JPEG named photo.jpg that holds a dangerous pattern,
\* validated as the upload route does, is accepted.
C18_UnsafeJpegAccepted ==
    /\ val.fn = "validate_image_file" /\ val.res.ok /\ val.file.unsafe
    /\ val.file.magic = "jpg" /\ val.filename = <<"photo", "jpg">>
    /\ val.file.w = 1 /\ val.file.h = 1
    /\ val.allowed_extensions = <<"jpg", "jpeg", "png", "webp", "gif", "bmp">>
    /\ val.max_size = MaxFileSize

\* C19: validate_image_file accepts only images whose decoded width and
\* height are both in 1..4000; a decodable image with a side outside is
\* rejected, with a dimension message whenever it gets to the decoding.
C19_AcceptedDimensionsInRange ==
    val.fn = "validate_image_file" =>
        LET inside == /\ val.file.w >= 1 /\ val.file.w <= MaxImageDim
                      /\ val.file.h >= 1 /\ val.file.h <= MaxImageDim
        IN  /\ val.res.ok => (val.file.decodable /\ inside)
            /\ (val.file.decodable /\ ~inside) => ~val.res.ok
            /\ (val.file.decodable /\ ~inside /\ ReachesDecode) =>
                  val.res.err \in {"Invalid image dimensions",
                                   "Image dimensions too large"}

\* A decodable image 1 wide and 4001 high was rejected as too large.
C19_TooHighRejected ==
    /\ ReachesDecode /\ val.file.decodable
    /\ val.file.w = 1 /\ val.file.h = MaxImageDim + 1
    /\ ~val.res.ok /\ val.res.err = "Image dimensions too large"

(***************************************************************************)
(* The session of the image routes (routes/images.py): an upload is        *)
(* validated and stored in the session; each processing route reads the    *)
(* stored upload, runs its transformation and saves the result as a row.   *)
(* A request is taken once its login and rate-limit decorators have let   *)
(* it through to the handler.                                              *)
(***************************************************************************)
MaxSaved == 2

\* app.config['ALLOWED_EXTENSIONS'] (config.py).
ConfigAllowedExtensions == <<"jpg", "jpeg", "png", "webp", "gif", "bmp">>

File(len, magic, decodable, w, h, unsafe) ==
    [len |-> len, magic |-> magic, decodable |-> decodable, w |-> w, h |-> h,
     unsafe |-> unsafe, enc |-> [base |-> 1024, step |-> 1024, gran |-> 25]]

\* The files a client posts: sound images, an image holding a dangerous
\* pattern, a BMP, a truncated JPEG, an image wider than the bound, a buffer
\* over the size limit and an empty buffer.
UploadFiles ==
    {File(1, "png", TRUE, 1, 1, FALSE), File(1, "jpg", TRUE, 3, 1, FALSE),
     File(1, "png", TRUE, 1, 1, TRUE), File(1, "bmp", TRUE, 1, 1, FALSE),
     File(1, "jpg", FALSE, 0, 0, FALSE),
     File(1, "png", TRUE, MaxImageDim + 1, 1, FALSE),
     File(MaxFileSize + 1, "png", TRUE, 1, 1, FALSE),
     File(0, "none", FALSE, 0, 0, FALSE)}

UploadNames == {<<"photo", "png">>, <<"photo", "php">>, <<"", "">>}

FormDims == {1, 2}

\* sanitize_filename: a name without separators, reserved or control
\* characters and of at most 255 characters is kept; an empty name, "." and
\* ".." become "unnamed_file".
SanitizeFilename(filename) ==
    IF filename \in {<<>>, <<"">>, <<"", "">>, <<"", "", "">>}
    THEN <<"unnamed_file">>
    ELSE filename

NoUpload == [stored |-> FALSE]

NoRun == [tool |-> "none"]

InitSession ==
    /\ web = [uploaded |-> NoUpload, ran |-> NoRun,
              resp |-> [route |-> "none", status |-> 0], saved |-> 0]
    /\ geo = NoCall /\ cmp = NoCall /\ pk = NoCall /\ val = NoCall

Respond(route, status, error) == [route |-> route, status |-> status, error |-> error]

\* upload_image with the session written before the file is validated.
UploadStoredUnvalidated(file, filename, valid, info) ==
    web' = [web EXCEPT !.ran = NoRun,
                       !.resp = IF ~valid.ok THEN Respond("upload", 400, valid.err)
                                ELSE IF ~info.ok THEN Respond("upload", 400, info.err)
                                ELSE Respond("upload", 200, ""),
                       !.uploaded = [stored |-> TRUE, file |-> file,
                                     filename |-> filename, info |-> info]]

\* What upload_image does with a posted file once it is read.
Upload(file, filename, valid, info) ==
    IF ~valid.ok
    THEN web' = [web EXCEPT !.ran = NoRun, !.resp = Respond("upload", 400, valid.err)]
    ELSE IF ~info.ok
    THEN web' = [web EXCEPT !.ran = NoRun, !.resp = Respond("upload", 400, info.err)]
    ELSE web' = [web EXCEPT !.ran = NoRun, !.resp = Respond("upload", 200, ""),
                            !.uploaded = [stored |-> TRUE, file |-> file,
                                          filename |-> filename, info |-> info]]

UploadImage ==
    /\ \E file \in UploadFiles, name \in UploadNames :
          Upload(file, SanitizeFilename(name),
                 ValidateImageFile(file, SanitizeFilename(name), MaxFileSize,
                                   ConfigAllowedExtensions),
                 GetImageInfo(file))
    /\ UNCHANGED <<geo, cmp, pk, val>>

\* A post without a file part, or with an empty file name.
UploadWithoutFile ==
    /\ \E error \in {"No file provided", "No file selected"} :
          web' = [web EXCEPT !.ran = NoRun, !.resp = Respond("upload", 400, error)]
    /\ UNCHANGED <<geo, cmp, pk, val>>

\* if not uploaded_file: return 'No file uploaded', 400
NoFileUploaded(route) ==
    /\ ~web.uploaded.stored
    /\ web' = [web EXCEPT !.ran = NoRun, !.resp = Respond(route, 400, "No file uploaded")]

\* The transformation ran on the stored upload: its result is saved as a row
\* and answered, or its exception is answered with 500.
Processed(route, tool, r, error) ==
    /\ web.uploaded.stored
    /\ web' = [web EXCEPT
                  !.ran = [tool |-> tool, upload |-> web.uploaded, ok |-> r.ok],
                  !.resp = IF r.ok THEN Respond(route, 200, "")
                           ELSE Respond(route, 500, error),
                  !.saved = IF r.ok THEN web.saved + 1 ELSE web.saved]

ProcessBlur ==
    /\ web.saved < MaxSaved
    /\ \/ NoFileUploaded("process-blur")
       \/ \E width \in FormDims, height \in FormDims :
             Processed("process-blur", "blur",
                       AddBlurBorders(web.uploaded.file.w, web.uploaded.file.h,
                                      width, height),
                       "Error processing blur")
    /\ UNCHANGED <<geo, cmp, pk, val>>

\* compress_mode 'target_size' passes target_size_kb, any other passes
\* quality.
ProcessCompress ==
    /\ web.saved < MaxSaved
    /\ \/ NoFileUploaded("process-compress")
       \/ \E p \in {<<kb, 0>> : kb \in {0, 1, 2}} \cup {<<0, q>> : q \in {50, 85}} :
             Processed("process-compress", "compress",
                       CompressImage(web.uploaded.file.enc, p[1], p[2]),
                       "Error compressing image")
    /\ UNCHANGED <<geo, cmp, pk, val>>

\* resize_method 'percentage', 'max_dimension' or (any other) a specific
\* size.
ProcessResize ==
    /\ web.saved < MaxSaved
    /\ \/ NoFileUploaded("process-resize")
       \/ \E p \in {<<0, 0, 50, 0, 0>>}
                   \cup {<<0, 0, 0, mw, mh>> : mw \in FormDims, mh \in FormDims}
                   \cup {<<w, h, 0, 0, 0>> : w \in FormDims, h \in FormDims} :
             Processed("process-resize", "resize",
                       ResizeImage(web.uploaded.file.w, web.uploaded.file.h,
                                   p[1], p[2], p[3], p[4], p[5]),
                       "Error resizing image")
    /\ UNCHANGED <<geo, cmp, pk, val>>

\* The route is itself named process_pack and hides the imported function:
\* the call process_pack(file_data, pack_config) re-enters the route with two
\* arguments, raises TypeError and is answered 500; no pack is generated.
ProcessPackRoute ==
    /\ web.saved < MaxSaved
    /\ \/ NoFileUploaded("process-pack")
       \/ /\ web.uploaded.stored
          /\ \E r \in {Respond("process-pack", 404, "Not Found"),
                       Respond("process-pack", 400, "Pack is not active"),
                       Respond("process-pack", 500, "TypeError")} :
                web' = [web EXCEPT !.ran = NoRun, !.resp = r]
    /\ UNCHANGED <<geo, cmp, pk, val>>

\* GET /logout: session.clear() drops the stored upload with the login.
Logout ==
    /\ web' = [web EXCEPT !.uploaded = NoUpload, !.ran = NoRun,
                          !.resp = Respond("logout", 302, "")]
    /\ UNCHANGED <<geo, cmp, pk, val>>

NextSession ==
    \/ UploadImage
    \/ UploadWithoutFile
    \/ Logout
    \/ ProcessBlur
    \/ ProcessCompress
    \/ ProcessResize
    \/ ProcessPackRoute

SpecSession == InitSession /\ [][NextSession]_vars

\* C6: a transformation only runs on a buffer that passed all the checks of
\* the Validator (size, extension, magic bytes, decodability, dimension
\* bounds, content safety) and the metadata extraction; a processing request
\* made while no upload is stored is rejected and runs no transformation.
C6_OnlyValidatedBuffersTransformed ==
    /\ web.ran # NoRun =>
          LET f == web.ran.upload.file
              name == web.ran.upload.filename
          IN  /\ f.len <= MaxFileSize
              /\ Lower(name[Len(name)]) \in Range(ConfigAllowedExtensions)
              /\ f.magic \in KnownMagic
              /\ f.decodable
              /\ f.w >= 1 /\ f.h >= 1 /\ f.w <= MaxImageDim /\ f.h <= MaxImageDim
              /\ ~f.unsafe
              /\ GetImageInfo(f).ok
    /\ (web.resp.route \in {"process-blur", "process-compress", "process-resize",
                            "process-pack"} /\ ~web.uploaded.stored) =>
          (web.ran = NoRun /\ web.resp.status = 400)

\* The blur ran on a stored upload whose bytes hold a dangerous pattern.
C6_UnsafeBufferTransformed ==
    /\ web.ran # NoRun /\ web.ran.tool = "blur" /\ web.ran.ok
    /\ web.ran.upload.file.unsafe /\ web.resp.status = 200

\* C30: an upload request that fails (no file part, empty file name,
\* validation rejection, metadata extraction error) leaves the stored upload
\* as it was; the stored upload is replaced by another only in an upload
\* answered 200, whose file passed validate_image_file and get_image_info;
\* and a transformation that runs, runs on the upload stored at that time.
C30_FailedUploadKeepsStored ==
    /\ [][/\ ( (web'.resp.route = "upload" /\ web'.resp.status # 200)
                => (web'.uploaded = web.uploaded) )
           /\ ( (web'.uploaded # web.uploaded /\ web'.uploaded.stored)
                => ( /\ web'.resp.route = "upload" /\ web'.resp.status = 200
                     /\ ValidateImageFile(web'.uploaded.file, web'.uploaded.filename,
                                          MaxFileSize, ConfigAllowedExtensions).ok
                     /\ GetImageInfo(web'.uploaded.file).ok ) )
           /\ ( (web'.ran # NoRun)
                => ( /\ web.uploaded.stored
                     /\ web'.ran.upload = web.uploaded
                     /\ web'.uploaded = web.uploaded ) )]_vars
    /\ [](web.ran # NoRun => (web.uploaded.stored /\ web.ran.upload = web.uploaded))

\* An upload was rejected by the validation while an earlier upload is
\* stored in the session.
C30_RejectedWhileStored ==
    /\ web.resp.route = "upload" /\ web.resp.status = 400
    /\ web.resp.error \notin {"No file provided", "No file selected"}
    /\ web.uploaded.stored

(***************************************************************************)
(* The rate limiter (utils/security.py), for one key.  Each request runs   *)
(* the decorator in a thread of the server: it reads the clock, creates    *)
(* the key's list if the key is new, replaces the list by its entries      *)
(* younger than an hour, aborts with 429 if the list is full and appends   *)
(* its time otherwise.  With threaded = FALSE a request arrives only when  *)
(* no other is being handled; with threaded = TRUE the steps of two        *)
(* requests interleave on the module-level dict, unsynchronised.           *)
(* admitted records the times of the requests let through.                 *)
(***************************************************************************)
Hour == 3600

MaxLimit == 2

MaxRequests == 3

LimitReachedStrict(n, max_per_hour) == n > max_per_hour

\* len(rate_limit_storage[key]) >= max_per_hour
LimitReached(n, max_per_hour) == n >= max_per_hour

\* [t for t in rate_limit_storage[key] if now - t < 3600]
Fresh(entries, now) == SelectSeq(entries, LAMBDA t : now - t < Hour)

ThreadIdle == [pc |-> "idle"]

InitRateLimit ==
    /\ \E threaded \in BOOLEAN, max_per_hour \in 1..MaxLimit :
          web = [fn |-> "rate_limit", threaded |-> threaded,
                 max_per_hour |-> max_per_hour, present |-> FALSE, list |-> <<>>,
                 clock |-> 0, served |-> 0, admitted |-> <<>>,
                 last |-> [outcome |-> "none"], th |-> [t \in 1..2 |-> ThreadIdle]]
    /\ geo = NoCall /\ cmp = NoCall /\ pk = NoCall /\ val = NoCall

\* now = time.time(), at a time not before the previous request's.
Arrive(t) ==
    /\ web.th[t].pc = "idle" /\ web.served < MaxRequests
    /\ ~web.threaded => \A u \in 1..2 : web.th[u].pc = "idle"
    /\ \E now \in {0, 1, Hour, Hour + 1} :
          /\ now >= web.clock
          /\ web' = [web EXCEPT !.clock = now, !.served = web.served + 1,
                                !.th[t] = [pc |-> "test", now |-> now,
                                           fresh |-> Len(Fresh(web.list, now))]]
    /\ UNCHANGED <<geo, cmp, pk, val>>

\* if key not in rate_limit_storage
TestKey(t) ==
    /\ web.th[t].pc = "test"
    /\ web' = [web EXCEPT !.th[t].pc = IF web.present THEN "read" ELSE "create"]
    /\ UNCHANGED <<geo, cmp, pk, val>>

\* rate_limit_storage[key] = []
CreateList(t) ==
    /\ web.th[t].pc = "create"
    /\ web' = [web EXCEPT !.present = TRUE, !.list = <<>>, !.th[t].pc = "read"]
    /\ UNCHANGED <<geo, cmp, pk, val>>

\* The comprehension reads the key's list ...
ReadList(t) ==
    /\ web.th[t].pc = "read"
    /\ web' = [web EXCEPT !.th[t] = [pc |-> "prune", snap |-> web.list] @@ web.th[t]]
    /\ UNCHANGED <<geo, cmp, pk, val>>

\* ... and the list built from it is stored under the key.
PruneList(t) ==
    /\ web.th[t].pc = "prune"
    /\ web' = [web EXCEPT !.list = Fresh(web.th[t].snap, web.th[t].now),
                          !.th[t].pc = "check"]
    /\ UNCHANGED <<geo, cmp, pk, val>>

\* abort(429) when the list is full.
CheckLimit(t) ==
    /\ web.th[t].pc = "check"
    /\ IF LimitReached(Len(web.list), web.max_per_hour)
       THEN web' = [web EXCEPT !.th[t] = ThreadIdle,
                               !.last = [outcome |-> "rejected", now |-> web.th[t].now,
                                         fresh |-> web.th[t].fresh]]
       ELSE web' = [web EXCEPT !.th[t].pc = "append"]
    /\ UNCHANGED <<geo, cmp, pk, val>>

\* rate_limit_storage[key].append(now); the request goes on to its handler.
AppendNow(t) ==
    /\ web.th[t].pc = "append"
    /\ web' = [web EXCEPT !.list = Append(web.list, web.th[t].now),
                          !.admitted = Append(web.admitted, web.th[t].now),
                          !.th[t] = ThreadIdle,
                          !.last = [outcome |-> "admitted", now |-> web.th[t].now,
                                    fresh |-> web.th[t].fresh]]
    /\ UNCHANGED <<geo, cmp, pk, val>>

NextRateLimit ==
    \E t \in 1..2 :
        \/ Arrive(t) \/ TestKey(t) \/ CreateList(t) \/ ReadList(t)
        \/ PruneList(t) \/ CheckLimit(t) \/ AppendNow(t)

SpecRateLimit == InitRateLimit /\ [][NextRateLimit]_vars

\* The admitted requests within the hour that ends with the i-th admitted.
WithinHourOf(i) ==
    {j \in 1..Len(web.admitted) :
        web.admitted[j] <= web.admitted[i] /\ web.admitted[i] - web.admitted[j] < Hour}

\* C26: with requests handled one at a time and times that never decrease,
\* no more than max_per_hour admitted requests lie within any window of
\* 3600 seconds (a window holds times less than 3600 apart); a request
\* rejected with 429 is not recorded, the list holding exactly the admitted
\* times younger than an hour; and a request that arrives when fewer than
\* max_per_hour admitted times are younger than an hour is admitted.
C26_SerialLimitHolds ==
    ~web.threaded =>
        /\ \A i \in 1..Len(web.admitted) :
              Cardinality(WithinHourOf(i)) <= web.max_per_hour
        /\ (web.last.outcome # "none" /\ \A t \in 1..2 : web.th[t].pc = "idle") =>
              web.list = Fresh(web.admitted, web.last.now)
        /\ web.last.outcome = "rejected" => web.last.fresh >= web.max_per_hour
        /\ web.last.outcome = "admitted" => web.last.fresh < web.max_per_hour

\* With max_per_hour = 1: a request at 0 admitted, one at 1 rejected, one at
\* 3600 admitted again.
C26_AdmittedAgainAfterAnHour ==
    /\ ~web.threaded /\ web.max_per_hour = 1 /\ web.served = 3
    /\ web.admitted = <<0, Hour>> /\ web.list = <<Hour>>
    /\ web.last.outcome = "admitted"

\* C27: with the steps of concurrent requests interleaved, still no more
\* than max_per_hour requests are admitted within an hour, and every
\* admitted time younger than an hour is in the key's list.
C27_ThreadedLimitHolds ==
    /\ \A i \in 1..Len(web.admitted) :
          Cardinality(WithinHourOf(i)) <= web.max_per_hour
    /\ \A i \in 1..Len(web.admitted) :
          web.clock - web.admitted[i] < Hour =>
              Cardinality({j \in 1..Len(web.list) : web.list[j] = web.admitted[i]})
                  >= Cardinality({j \in 1..Len(web.admitted) :
                                     web.admitted[j] = web.admitted[i]})

\* With max_per_hour = 1 two requests at time 0 were both admitted, and the
\* list holds one of the two times.
C27_BothAdmittedOneRecorded ==
    /\ web.threaded /\ web.max_per_hour = 1
    /\ web.admitted = <<0, 0>> /\ web.list = <<0>>
    /\ \A t \in 1..2 : web.th[t].pc = "idle"

(***************************************************************************)
(* User administration (routes/admin.py) and the stored images             *)
(* (routes/images.py, routes/api.py).  users maps a user id to "admin" or  *)
(* "user", or to "none" when there is no such row.  images maps an image   *)
(* id to its row: owner is user_id (0 when there is no such row), pack is  *)
(* pack_id (0 for NULL).  last is the response of the last request: the    *)
(* route, the status, g.user, the image id of the URL (0 when the route    *)
(* takes none) and the ids of the images whose data the response carries.  *)
(***************************************************************************)
MaxUsers == 2
MaxImages == 1
MaxPacks == 1

AdminCount(users) == Cardinality({u \in DOMAIN users : users[u] = "admin"})

InitAdmin ==
    /\ \E users \in [1..MaxUsers -> {"none", "user", "admin"}],
          images \in [1..MaxImages -> [owner : 0..MaxUsers, pack : 0..MaxPacks]] :
          /\ AdminCount(users) >= 1
          /\ \A i \in 1..MaxImages :
                IF images[i].owner = 0 THEN images[i].pack = 0
                ELSE users[images[i].owner] # "none"
          /\ web = [fn |-> "admin", users |-> users, images |-> images,
                    last |-> [route |-> "none", status |-> 0, actor |-> 0,
                              image |-> 0, sent |-> {}]]
    /\ geo = NoCall /\ cmp = NoCall /\ pk = NoCall /\ val = NoCall

\* The response of an admin route to g.user = actor, and the tables after it.
\* admin_required: g.user is an admin.
AdminResponse(actor, route, status, users, images) ==
    /\ web.users[actor] = "admin"
    /\ web' = [web EXCEPT !.users = users, !.images = images,
                          !.last = [route |-> route, status |-> status,
                                    actor |-> actor, image |-> 0, sent |-> {}]]
    /\ UNCHANGED <<geo, cmp, pk, val>>

\* POST /users/create with a new username and email, is_admin as ticked.
CreateUser ==
    \E actor \in 1..MaxUsers, u \in 1..MaxUsers, role \in {"user", "admin"} :
        /\ web.users[u] = "none"
        /\ AdminResponse(actor, "create_user", 200, [web.users EXCEPT ![u] = role],
                         web.images)

\* POST /users/<u>/update: is_admin is set to what the form holds.
UpdateUser ==
    \E actor \in 1..MaxUsers, u \in 1..MaxUsers, role \in {"user", "admin"} :
        IF web.users[u] = "none"
        THEN AdminResponse(actor, "update_user", 404, web.users, web.images)
        ELSE AdminResponse(actor, "update_user", 200, [web.users EXCEPT ![u] = role],
                           web.images)

\* POST /users/<u>/delete: the user's images go with the row (cascade).
DeleteUser ==
    \E actor \in 1..MaxUsers, u \in 1..MaxUsers :
        IF web.users[u] = "none"
        THEN AdminResponse(actor, "delete_user", 404, web.users, web.images)
        ELSE IF u = actor \/ (web.users[u] = "admin" /\ AdminCount(web.users) <= 1)
        THEN AdminResponse(actor, "delete_user", 400, web.users, web.images)
        ELSE AdminResponse(actor, "delete_user", 200, [web.users EXCEPT ![u] = "none"],
                           [i \in 1..MaxImages |->
                              IF web.images[i].owner = u THEN [owner |-> 0, pack |-> 0]
                              ELSE web.images[i]])

\* POST /users/<u>/toggle-admin
ToggleUserAdmin ==
    \E actor \in 1..MaxUsers, u \in 1..MaxUsers :
        IF web.users[u] = "none"
        THEN AdminResponse(actor, "toggle_user_admin", 404, web.users, web.images)
        ELSE IF u = actor \/ (web.users[u] = "admin" /\ AdminCount(web.users) <= 1)
        THEN AdminResponse(actor, "toggle_user_admin", 400, web.users, web.images)
        ELSE AdminResponse(actor, "toggle_user_admin", 200,
                           [web.users EXCEPT ![u] = IF @ = "admin" THEN "user"
                                                    ELSE "admin"],
                           web.images)

\* POST /reset-all: every image and every non-admin user is deleted.
ResetAll ==
    \E actor \in 1..MaxUsers :
        AdminResponse(actor, "reset_all", 302,
                      [u \in 1..MaxUsers |-> IF web.users[u] = "admin" THEN "admin"
                                             ELSE "none"],
                      [i \in 1..MaxImages |-> [owner |-> 0, pack |-> 0]])

\* The response of an image route to g.user = actor, and the image table
\* after it.  login_required / api_auth_required: g.user is a user row.
ImageResponse(actor, route, status, image, sent, images) ==
    /\ web.users[actor] # "none"
    /\ web' = [web EXCEPT !.images = images,
                          !.last = [route |-> route, status |-> status,
                                    actor |-> actor, image |-> image, sent |-> sent]]
    /\ UNCHANGED <<geo, cmp, pk, val>>

\* GET /download/<i>
DownloadImage ==
    \E actor \in 1..MaxUsers, i \in 1..MaxImages :
        IF web.images[i].owner = 0
        THEN ImageResponse(actor, "download_image", 404, i, {}, web.images)
        ELSE IF web.images[i].owner # actor /\ web.users[actor] # "admin"
        THEN ImageResponse(actor, "download_image", 302, i, {}, web.images)
        ELSE ImageResponse(actor, "download_image", 200, i, {i}, web.images)

\* GET /api/images/<i>: behind rate_limit; the row has no to_dict, so the
\* request of an owner or admin ends in an AttributeError (500).
GetImage ==
    \E actor \in 1..MaxUsers, i \in 1..MaxImages, limited \in BOOLEAN :
        IF limited THEN ImageResponse(actor, "get_image", 429, i, {}, web.images)
        ELSE IF web.images[i].owner = 0
        THEN ImageResponse(actor, "get_image", 404, i, {}, web.images)
        ELSE IF web.images[i].owner # actor /\ web.users[actor] # "admin"
        THEN ImageResponse(actor, "get_image", 403, i, {}, web.images)
        ELSE ImageResponse(actor, "get_image", 500, i, {}, web.images)

\* delete_image without its ownership check.
DeleteImageUnchecked ==
    \E actor \in 1..MaxUsers, i \in 1..MaxImages :
        IF web.images[i].owner = 0
        THEN ImageResponse(actor, "delete_image", 404, i, {}, web.images)
        ELSE ImageResponse(actor, "delete_image", 200, i, {},
                           [web.images EXCEPT ![i] = [owner |-> 0, pack |-> 0]])

\* POST /delete-image/<i>
DeleteImage ==
    \E actor \in 1..MaxUsers, i \in 1..MaxImages :
        IF web.images[i].owner = 0
        THEN ImageResponse(actor, "delete_image", 404, i, {}, web.images)
        ELSE IF web.images[i].owner # actor /\ web.users[actor] # "admin"
        THEN ImageResponse(actor, "delete_image", 403, i, {}, web.images)
        ELSE ImageResponse(actor, "delete_image", 200, i, {},
                           [web.images EXCEPT ![i] = [owner |-> 0, pack |-> 0]])

\* DELETE /api/images/<i>: behind rate_limit.
DeleteImageApi ==
    \E actor \in 1..MaxUsers, i \in 1..MaxImages, limited \in BOOLEAN :
        IF limited THEN ImageResponse(actor, "delete_image_api", 429, i, {}, web.images)
        ELSE IF web.images[i].owner = 0
        THEN ImageResponse(actor, "delete_image_api", 404, i, {}, web.images)
        ELSE IF web.images[i].owner # actor /\ web.users[actor] # "admin"
        THEN ImageResponse(actor, "delete_image_api", 403, i, {}, web.images)
        ELSE ImageResponse(actor, "delete_image_api", 200, i, {},
                           [web.images EXCEPT ![i] = [owner |-> 0, pack |-> 0]])

\* GET /download-pack/<p>: pack MaxPacks + 1 is not a row of the pack table.
DownloadPack ==
    \E actor \in 1..MaxUsers, p \in 1..MaxPacks + 1 :
        IF p > MaxPacks
        THEN ImageResponse(actor, "download_pack", 404, 0, {}, web.images)
        ELSE IF {i \in 1..MaxImages : web.images[i].owner = actor
                                      /\ web.images[i].pack = p} = {}
        THEN ImageResponse(actor, "download_pack", 302, 0, {}, web.images)
        ELSE ImageResponse(actor, "download_pack", 200, 0,
                           {i \in 1..MaxImages : web.images[i].owner = actor
                                                 /\ web.images[i].pack = p},
                           web.images)

\* POST /delete-pack/<p>
DeletePack ==
    \E actor \in 1..MaxUsers, p \in 1..MaxPacks + 1 :
        IF p > MaxPacks
        THEN ImageResponse(actor, "delete_pack", 404, 0, {}, web.images)
        ELSE IF {i \in 1..MaxImages : web.images[i].owner = actor
                                      /\ web.images[i].pack = p} = {}
        THEN ImageResponse(actor, "delete_pack", 404, 0, {}, web.images)
        ELSE ImageResponse(actor, "delete_pack", 200, 0, {},
                           [i \in 1..MaxImages |->
                              IF web.images[i].owner = actor /\ web.images[i].pack = p
                              THEN [owner |-> 0, pack |-> 0] ELSE web.images[i]])

\* GET /download-all
DownloadAll ==
    \E actor \in 1..MaxUsers :
        IF {i \in 1..MaxImages : web.images[i].owner = actor} = {}
        THEN ImageResponse(actor, "download_all", 302, 0, {}, web.images)
        ELSE ImageResponse(actor, "download_all", 200, 0,
                           {i \in 1..MaxImages : web.images[i].owner = actor},
                           web.images)

\* POST /clear-all
ClearAll ==
    \E actor \in 1..MaxUsers :
        ImageResponse(actor, "clear_all", 200, 0, {},
                      [i \in 1..MaxImages |->
                         IF web.images[i].owner = actor THEN [owner |-> 0, pack |-> 0]
                         ELSE web.images[i]])

NextAdmin ==
    \/ CreateUser \/ UpdateUser \/ DeleteUser \/ ToggleUserAdmin \/ ResetAll
    \/ DownloadImage \/ GetImage \/ DeleteImage \/ DeleteImageApi
    \/ DownloadPack \/ DeletePack \/ DownloadAll \/ ClearAll

SpecAdmin == InitAdmin /\ [][NextAdmin]_vars

\* C28: after any sequence of admin operations from a state with an admin,
\* a user with is_admin = true still exists.
C28_AnAdminRemains == AdminCount(web.users) >= 1

\* The only admin posted an update of their own account with is_admin not
\* ticked: no admin is left.
C28_LastAdminDemotedByUpdate ==
    /\ web.last.route = "update_user" /\ web.last.status = 200
    /\ web.users[web.last.actor] = "user"
    /\ AdminCount(web.users) = 0

\* C29: in every request to an image route, an image whose data is returned
\* or whose row is deleted is, for the routes that take an image id, the
\* image of the URL and the requesting user owns it or is an admin, and for
\* the per-pack and bulk routes an image the requesting user owns; a request
\* for an existing image by a user who is neither its owner nor an admin is
\* refused, returns nothing and leaves the image table as it was.
C29_ImageAccessControlled ==
    [][web'.last.route \in {"download_image", "get_image", "delete_image",
                            "delete_image_api", "download_pack", "delete_pack",
                            "download_all", "clear_all"}
       => /\ \A i \in 1..MaxImages :
                (i \in web'.last.sent \/ web'.images[i] # web.images[i])
                => /\ web.images[i].owner # 0
                   /\ IF web'.last.image # 0
                      THEN /\ i = web'.last.image
                           /\ \/ web.images[i].owner = web'.last.actor
                              \/ web.users[web'.last.actor] = "admin"
                      ELSE web.images[i].owner = web'.last.actor
          /\ web'.users = web.users
          /\ ( /\ web'.last.image # 0
               /\ web.images[web'.last.image].owner \notin {0, web'.last.actor}
               /\ web.users[web'.last.actor] # "admin" )
             => /\ web'.last.status \in {302, 403, 429}
                /\ web'.last.sent = {}
                /\ web'.images = web.images]_vars

\* A user who is not an admin asked to delete another user's image and got
\* 403; the image is still there.
C29_OtherUsersDeleteRefused ==
    /\ web.last.route = "delete_image" /\ web.last.status = 403
    /\ web.users[web.last.actor] = "user"
    /\ web.images[web.last.image].owner \notin {0, web.last.actor}

=============================================================================
